---- MODULE Spec2Model ----
(***************************************************************************)
(* Model of the service login of the GatePlane CLI (cmd/auth-service.go):  *)
(* performOIDCLogin, the callback server started by startCallbackServer,   *)
(* the waiter goroutine and exchangeCodeForToken.                          *)
(* After the login: the service logout and status commands on the config  *)
(* file (internal/config), the claim command (cmd/gates.go) and the gate   *)
(* aliases of the configuration.                                           *)
(*                                                                         *)
(* Strings that are built or parsed are sequences of tokens: a token is a  *)
(* literal piece of text or one character of a variable value.  Errors are *)
(* their messages; the nil error is the empty message.                     *)
(***************************************************************************)
EXTENDS Integers, Sequences, FiniteSets, TLC

\* ------------------------------------------------------------------ bounds
\* Number of HTTP requests that may reach /oidc/callback in one attempt.
MaxRequests == 3

\* ------------------------------------------------------------- input sets
\* Query parameter values a callback request may carry.
CodeVals == {"", "c1"}
StateVals == {"state", "other"}
ErrorVals == {"", "access_denied"}
ErrorDescVals == {"", "denied by user"}

\* Client ids the login command may pass on.
ClientIDVals == {<<"abc">>}

\* Values the Vault wrapping endpoint may hand back as WrapInfo.Token.
WrappedTokenVals == {<<"hvs", ".", "T1">>}

\* Verifiers oauth2.GenerateVerifier may draw.
Verifiers == {"v1", "v2"}

\* Codes the user may type on the manual path ("" is an empty line).
TypedVals == {"", "c1", "c1 x"}

NoError == <<>>

\* ------------------------------------------------------------------ state
VARIABLES
    clientID,         \* parameter of performOIDCLogin
    skipBrowser,      \* parameter of performOIDCLogin
    pc,               \* position of performOIDCLogin
    wrappedToken,     \* result of CreateWrappedToken
    wrapErr,          \* error of CreateWrappedToken
    autoLoginParams,  \* local autoLoginParams
    verifier,         \* local verifier
    authURL,          \* local authURL
    authCode,         \* shared with the waiter goroutine
    authError,        \* shared with the waiter goroutine
    deferred,         \* the deferred server.Shutdown is registered
    wpc,              \* waiter goroutine: "none", "select", "done"
    branch,           \* select case the waiter took: "none", "result", "timeout"
    received,         \* results the waiter read from serverCh
    resultCh,         \* buffered channel of capacity ChanCap
    spc,              \* serving goroutine: "none", "start", "serving", "send_err", "done"
    srvErr,           \* error ListenAndServe returned: "none", "bind"
    srvInShutdown,    \* http.Server.inShutdown
    srvListening,     \* the listening socket is open and accepting
    h,                \* handler goroutine of each request
    pushes,           \* results written to resultCh so far
    shutdownCalls,    \* server.Shutdown invocations
    browserCalls,     \* browser.OpenURL invocations
    exchangeCalls,    \* exchangeCodeForToken invocations
    exchangeArgs,     \* arguments of the exchange
    retToken,         \* returned token
    retErr,           \* returned error
    tokenResp,        \* answer of the token endpoint to the exchange
    browserErr,       \* browser.OpenURL returned an error
    wrapCalls,        \* CreateWrappedToken invocations
    serverStarts,     \* startCallbackServer invocations
    cmd,              \* position of the login command (RunE of serviceLoginCmd)
    cfgClientID,      \* cfg.Service.ClientID, in memory
    cfgJWT,           \* cfg.Service.JWT, in memory
    diskClientID,     \* service.client_id of the config file
    diskJWT,          \* service.jwt of the config file
    saveCalls,        \* config.SaveConfig invocations of the command
    cmdErr,           \* error returned by the command
    lastRequest,      \* query parameters of the last request, until it is answered
    urlPrints,        \* times authURL was printed to the terminal
    printed,          \* lines written to standard output by the attempt
    cfg,              \* package config: var cfg *Config
    file,             \* contents of ~/.gateplane/config.yaml
    env,              \* VAULT_ADDR, VAULT_TOKEN and the ~/.vault-token file
    last,             \* the last command run and what it returned
    loggedOut,        \* a logout succeeded and no login has succeeded since
    claim,            \* the running claim command
    requests          \* Vault: the caller's request on each gate

vars == <<clientID, skipBrowser, pc, wrappedToken, wrapErr, autoLoginParams, verifier,
          authURL, authCode, authError, deferred, wpc, branch, received,
          resultCh, spc, srvErr, srvInShutdown, srvListening, h, pushes,
          shutdownCalls, browserCalls, exchangeCalls, exchangeArgs,
          retToken, retErr, tokenResp, browserErr, wrapCalls, serverStarts,
          cmd, cfgClientID, cfgJWT, diskClientID, diskJWT, saveCalls, cmdErr, lastRequest,
          urlPrints, printed, cfg, file, env, last, loggedOut, claim, requests>>

\* ---------------------------------------------------- configuration values
\* Config, with the fields the modelled commands read or write: Vault
\* (address, token), Service (client id, JWT, JWKS) and Gates.
EmptyConfig ==
    [vault |-> [address |-> "", token |-> ""],
     service |-> [clientID |-> <<>>, jwt |-> "", jwks |-> ""],
     gates |-> <<>>]

\* Nothing set in the environment, no ~/.vault-token ("" is unset or absent).
NoEnv == [VAULT_ADDR |-> "", VAULT_TOKEN |-> "", vaultFile |-> ""]

\* No command has run.
NoCommand ==
    [cmd |-> "none", err |-> NoError, out |-> <<>>, before |-> EmptyConfig,
     arg |-> <<>>]

\* Gates mounted in Vault.
GatePaths == {"g1", "g2"}

\* (*models.Request)(nil)
NilRequest == [exists |-> FALSE, status |-> ""]

\* The claim command is not running.
IdleClaim ==
    [pc |-> "idle", interactive |-> FALSE, svcClient |-> FALSE,
     todo |-> {}, claimable |-> {}, gate |-> "", fetched |-> FALSE,
     req |-> NilRequest, claims |-> <<>>, result |-> "none", err |-> NoError,
     out |-> {}]

cliVars == <<cfg, file, env, last, loggedOut, claim, requests>>

\* No command other than the login is run.
CliIdle ==
    /\ cfg = EmptyConfig
    /\ file = EmptyConfig
    /\ env = NoEnv
    /\ last = NoCommand
    /\ loggedOut = FALSE
    /\ claim = IdleClaim
    /\ requests = [g \in GatePaths |-> "none"]

Reqs == 1..MaxRequests

\* make(chan callbackResult, 1)
ChanCap == 1

\* ------------------------------------------------------ strings and URLs
\* Position of the first token t in s at or after position i, 0 when absent.
RECURSIVE IndexFrom(_, _, _)
IndexFrom(s, t, i) ==
    IF i > Len(s) THEN 0
    ELSE IF s[i] = t THEN i
    ELSE IndexFrom(s, t, i + 1)

IndexOf(s, t) == IndexFrom(s, t, 1)

Contains(s, t) == IndexOf(s, t) # 0

RECURSIVE SplitOn(_, _)
SplitOn(s, sep) ==
    LET i == IndexOf(s, sep)
    IN  IF i = 0 THEN <<s>>
        ELSE <<SubSeq(s, 1, i - 1)>> \o SplitOn(SubSeq(s, i + 1, Len(s)), sep)

RECURSIVE Join(_, _)
Join(parts, sep) ==
    IF Len(parts) = 0 THEN <<>>
    ELSE IF Len(parts) = 1 THEN parts[1]
    ELSE parts[1] \o <<sep>> \o Join(Tail(parts), sep)

\* url.QueryEscape, one token at a time.
EscapeToken(t) ==
    CASE t = ":" -> "%3A"
      [] t = "/" -> "%2F"
      [] t = "&" -> "%26"
      [] t = "=" -> "%3D"
      [] t = "?" -> "%3F"
      [] t = "+" -> "%2B"
      [] t = "%" -> "%25"
      [] t = " " -> "+"
      [] OTHER -> t

QueryEscape(s) == [i \in 1..Len(s) |-> EscapeToken(s[i])]

\* url.QueryUnescape, one token at a time.
UnescapeToken(t) ==
    CASE t = "%3A" -> ":"
      [] t = "%2F" -> "/"
      [] t = "%26" -> "&"
      [] t = "%3D" -> "="
      [] t = "%3F" -> "?"
      [] t = "%2B" -> "+"
      [] t = "%25" -> "%"
      [] t = "+" -> " "
      [] OTHER -> t

QueryUnescape(s) == [i \in 1..Len(s) |-> UnescapeToken(s[i])]

\* url.Values.Encode of a key-sorted list of <<key, value>> pairs.
EncodeValues(pairs) ==
    Join([i \in 1..Len(pairs) |->
            QueryEscape(<<pairs[i][1]>>) \o <<"=">> \o QueryEscape(pairs[i][2])],
         "&")

\* url.Parse(u).Query(): the pairs after the first "?", in order.
ParseQuery(u) ==
    LET q == IndexOf(u, "?")
        raw == IF q = 0 THEN <<>> ELSE SubSeq(u, q + 1, Len(u))
        parts == IF raw = <<>> THEN <<>> ELSE SplitOn(raw, "&")
        Pair(p) ==
            LET e == IndexOf(p, "=")
            IN  IF e = 0 THEN <<QueryUnescape(p), <<>>>>
                ELSE <<QueryUnescape(SubSeq(p, 1, e - 1)),
                       QueryUnescape(SubSeq(p, e + 1, Len(p)))>>
    IN  [i \in 1..Len(parts) |-> Pair(parts[i])]

\* redirectURI := "http://localhost:45450/oidc/callback"
RedirectURI ==
    <<"http", ":", "/", "/", "localhost", ":", "45450", "/", "oidc", "/", "callback">>

\* Scopes joined by strings.Join(c.Scopes, " ")
Scopes == <<"openid", " ", "profile", " ", "messenger_options">>

\* client.Address()
VaultAddr == <<"https", ":", "/", "/", "vault">>

\* oauth2.S256ChallengeFromVerifier: a one-way image of the verifier.
S256 == [v \in Verifiers |-> IF v = "v1" THEN "h1" ELSE "h2"]

\* Mutant: the parameters are appended whether or not the token was created.
AutoLoginParamsAlways(token, failed) ==
    <<"?", "wrapped_token", "=">> \o token \o <<"&", "with", "=", "token">>

\* autoLoginParams after CreateWrappedToken returned (token, err).
AutoLoginParams(token, failed) ==
    IF failed THEN <<>>
    ELSE <<"?", "wrapped_token", "=">> \o token \o <<"&", "with", "=", "token">>

\* config.Endpoint.AuthURL
EndpointAuthURL(params) ==
    VaultAddr \o <<"/ui/vault/identity/oidc/provider/gateplane/authorize">> \o params

\* config.AuthCodeURL("state", oauth2.S256ChallengeOption(verifier))
AuthCodeURL(endpoint, cid, v) ==
    endpoint
    \o (IF Contains(endpoint, "?") THEN <<"&">> ELSE <<"?">>)
    \o EncodeValues(<< <<"client_id", cid>>,
                       <<"code_challenge", <<S256[v]>>>>,
                       <<"code_challenge_method", <<"S256">>>>,
                       <<"redirect_uri", RedirectURI>>,
                       <<"response_type", <<"code">>>>,
                       <<"scope", Scopes>>,
                       <<"state", <<"state">>>> >>)

\* The URLs performOIDCLogin can build, with their query parsed once.
BuiltURLs ==
    {AuthCodeURL(EndpointAuthURL(AutoLoginParams(t, f)), cid, v) :
        t \in WrappedTokenVals, f \in BOOLEAN, cid \in ClientIDVals,
        v \in Verifiers}

ParsedQuery == [u \in BuiltURLs |-> ParseQuery(u)]

\* url.ParseQuery of the query of u.
Query(u) == IF u \in BuiltURLs THEN ParsedQuery[u] ELSE ParseQuery(u)

QueryKeys(u) ==
    LET q == Query(u)
    IN  {q[i][1] : i \in DOMAIN q}

HasParam(u, k) == <<k>> \in QueryKeys(u)

\* url.Values[k]: the values of parameter k, in order of appearance.
QueryValues(u, k) ==
    LET q == Query(u)
    IN  SelectSeq(q, LAMBDA pair : pair[1] = <<k>>)

\* url.Values.Get(k): the first value of parameter k, empty when absent.
QueryGet(u, k) ==
    LET vs == QueryValues(u, k)
    IN  IF Len(vs) = 0 THEN <<>> ELSE vs[1][2]

\* -------------------------------------------------------- callback handler
NoResult == [Code |-> "", State |-> "", Error |-> NoError, reqError |-> ""]

\* msg of the handler's error branch
OIDCErrorMsg(errorParam, errorDesc) ==
    <<"OIDC error: ", errorParam>>
    \o (IF errorDesc # "" THEN <<" - ", errorDesc>> ELSE <<>>)

\* Mutant: a code is accepted before the error parameter is looked at.
HandleCallbackCodeFirst(code, state, errorParam, errorDesc) ==
    IF code # ""
    THEN [res |-> [Code |-> code, State |-> state, Error |-> NoError,
                   reqError |-> errorParam],
          status |-> 200]
    ELSE IF errorParam # ""
    THEN [res |-> [Code |-> "", State |-> "",
                   Error |-> OIDCErrorMsg(errorParam, errorDesc),
                   reqError |-> errorParam],
          status |-> 400]
    ELSE [res |-> [Code |-> "", State |-> "",
                   Error |-> <<"no authorization code received">>,
                   reqError |-> errorParam],
          status |-> 400]

\* The handler of /oidc/callback: the result it sends and the status it
\* writes afterwards.  reqError records the request's error parameter.
HandleCallback(code, state, errorParam, errorDesc) ==
    IF errorParam # ""
    THEN [res |-> [Code |-> "", State |-> "",
                   Error |-> OIDCErrorMsg(errorParam, errorDesc),
                   reqError |-> errorParam],
          status |-> 400]
    ELSE IF code = ""
    THEN [res |-> [Code |-> "", State |-> "",
                   Error |-> <<"no authorization code received">>,
                   reqError |-> errorParam],
          status |-> 400]
    ELSE [res |-> [Code |-> code, State |-> state, Error |-> NoError,
                   reqError |-> errorParam],
          status |-> 200]

\* wrapError(operation, err)
wrapError(operation, err) == <<"failed to ", operation, ": ">> \o err

\* The query parameters of a request; NoRequest when none is being handled.
NoRequest == [code |-> "", state |-> "", error |-> "", error_description |-> ""]

\* No request is being handled whose parameters are still in scope.
NoLastRequest == [id |-> 0, req |-> NoRequest]

IdleHandler == [pc |-> "idle", res |-> NoResult, status |-> 0]

\* ------------------------------------------------------------------- Init
\* Answers of the token endpoint: a failed exchange, or a token response
\* with its id_token extension field (absent, a string, or another type).
TokenResponses ==
    {[failed |-> TRUE, accessToken |-> "", idToken |-> <<"absent">>],
     [failed |-> FALSE, accessToken |-> "x", idToken |-> <<"absent">>],
     [failed |-> FALSE, accessToken |-> "x", idToken |-> <<"string", "">>],
     [failed |-> FALSE, accessToken |-> "x", idToken |-> <<"number", "7">>],
     [failed |-> FALSE, accessToken |-> "x", idToken |-> <<"string", "eyXYZ">>]}

\* No exchange has been made.
NoResponse == [failed |-> FALSE, accessToken |-> "", idToken |-> <<"none">>]

\* The locals of performOIDCLogin, the server and the goroutines before the
\* function has run.
LoginInit ==
    /\ skipBrowser \in BOOLEAN
    /\ wrappedToken = <<>>
    /\ wrapErr = FALSE
    /\ autoLoginParams = <<>>
    /\ verifier = ""
    /\ authURL = <<>>
    /\ authCode = ""
    /\ authError = NoError
    /\ deferred = FALSE
    /\ wpc = "none"
    /\ branch = "none"
    /\ received = <<>>
    /\ resultCh = <<>>
    /\ spc = "none"
    /\ srvErr = "none"
    /\ srvInShutdown = FALSE
    /\ srvListening = FALSE
    /\ h = [i \in Reqs |-> IdleHandler]
    /\ lastRequest = NoLastRequest
    /\ pushes = 0
    /\ shutdownCalls = 0
    /\ browserCalls = 0
    /\ browserErr = FALSE
    /\ exchangeCalls = 0
    /\ exchangeArgs = <<>>
    /\ tokenResp = NoResponse
    /\ wrapCalls = 0
    /\ serverStarts = 0
    /\ urlPrints = 0
    /\ printed = {}
    /\ retToken = ""
    /\ retErr = NoError

\* performOIDCLogin has just been called by the login command.
Init ==
    /\ LoginInit
    /\ CliIdle
    /\ clientID \in ClientIDVals
    /\ pc = "start"
    /\ cmd = "login"
    /\ cfgClientID = clientID
    /\ cfgJWT = ""
    /\ diskClientID = <<>>
    /\ diskJWT = ""
    /\ saveCalls = 0
    /\ cmdErr = NoError


\* --------------------------------------------------------- variable groups
cmdVars == <<cmd, cfgClientID, cfgJWT, diskClientID, diskJWT, saveCalls, cmdErr>>
inputVars == <<clientID, skipBrowser, cmdVars>>
urlVars == <<wrappedToken, wrapErr, autoLoginParams, verifier, authURL>>
waiterVars == <<wpc, branch, received>>
sharedVars == <<authCode, authError>>
serverVars == <<spc, srvErr, srvInShutdown, srvListening>>
callVars == <<shutdownCalls, browserCalls, browserErr, exchangeCalls,
              exchangeArgs, tokenResp, wrapCalls, serverStarts, urlPrints,
              printed>>
retVars == <<retToken, retErr>>

\* ---------------------------------------------------------- error values
ErrTimeout == <<"authentication timed out">>
ErrNoCode == <<"no authorization code received">>
ErrNoIDToken == <<"no ID token received from OIDC provider">>
ErrBind == <<"listen tcp :45450: bind: address already in use">>
ErrScan == <<"unexpected newline">>
ErrScanExtra == <<"expected newline">>

\* fmt.Scanln(&authCode) on a typed line: the first word is stored, an empty
\* line and anything after the first word are errors.
Scanln ==
    [typed \in TypedVals |->
        CASE typed = ""     -> [stored |-> FALSE, value |-> "", err |-> ErrScan]
          [] typed = "c1"   -> [stored |-> TRUE, value |-> "c1", err |-> NoError]
          [] typed = "c1 x" -> [stored |-> TRUE, value |-> "c1",
                                err |-> ErrScanExtra]]
ErrFetch == <<"oauth2: cannot fetch token">>
ErrWrap == <<"no wrap_info in response">>
ErrBrowser == <<"exec: \"xdg-open\": executable file not found in $PATH">>

\* ------------------------------------------------------- standard output
\* Lines 186 and 188: what is printed after CreateWrappedToken returned.
WrapOutput(failed) ==
    IF failed
    THEN {<<"Could not create wrapped token for auto-login (">> \o ErrWrap
            \o <<")">>}
    ELSE {<<"Generated Wrapped Token for auto-login">>}

\* Lines 233-242: what is printed around browser.OpenURL(url).
BrowserOutput(url, failed) ==
    {<<"Starting local callback server on port 45450...">>,
     <<"Opening browser for OIDC authentication...">>,
     <<"If browser doesn't open automatically, visit: ">> \o url,
     <<"Waiting for callback...">>}
    \cup (IF failed
          THEN {<<"Failed to open browser: ">> \o ErrBrowser,
                <<"Please visit the URL manually: ">> \o url}
          ELSE {})

\* Lines 250-251: what is printed before the code is read from the terminal.
ManualOutput(url) ==
    {<<"Visit this URL in your browser: ">> \o url,
     <<"Enter the authorization code from the callback URL: ">>}

\* Lines 334 and 341: what exchangeCodeForToken prints for an answer.
ExchangeOutput(resp) ==
    IF resp.failed THEN {}
    ELSE {<<"Token response received: AccessToken present: ",
            IF resp.accessToken # "" THEN "true" ELSE "false">>}
         \cup (IF resp.idToken[1] # "string" \/ resp.idToken[2] = ""
               THEN {<<"Available extra fields: ", "<nil>">>}
               ELSE {})

\* Mutant: Shutdown is called on the success path only, not deferred.
AfterReturnSkipOnError(err) ==
    IF deferred /\ err = NoError THEN "shutdown" ELSE "returned"

\* ------------------------------------------------------- performOIDCLogin
\* Where a return statement goes: the deferred Shutdown runs first when it
\* was registered.
AfterReturn(err) == IF deferred THEN "shutdown" ELSE "returned"

\* return tok, err
Return(tok, err) ==
    /\ retToken' = tok
    /\ retErr' = err
    /\ pc' = AfterReturn(err)

\* wrappedToken, err := CreateWrappedToken(client) and the branch on err;
\* the request error and the missing wrap_info both return ("", err).
CreateWrappedTokenStep ==
    /\ pc = "start"
    /\ \/ \E t \in WrappedTokenVals :
            /\ wrappedToken' = t
            /\ wrapErr' = FALSE
       \/ /\ wrappedToken' = <<>>
          /\ wrapErr' = TRUE
    /\ autoLoginParams' = AutoLoginParams(wrappedToken', wrapErr')
    /\ wrapCalls' = wrapCalls + 1
    /\ printed' = printed \cup WrapOutput(wrapErr')
    /\ pc' = "build"
    /\ UNCHANGED <<inputVars, verifier, authURL, sharedVars, deferred,
                   waiterVars, resultCh, serverVars, h, lastRequest, pushes, shutdownCalls,
                   browserCalls, browserErr, exchangeCalls, exchangeArgs,
                   tokenResp, serverStarts, retVars, urlPrints>>
    /\ UNCHANGED cliVars

\* The oauth2.Config, the verifier and the authorization URL.
\* Mutant: the callback server is started on the manual path too.
BuildAuthURLAlwaysServer ==
    /\ pc = "build"
    /\ \E v \in Verifiers :
        /\ verifier' = v
        /\ authURL' = AuthCodeURL(EndpointAuthURL(autoLoginParams), clientID, v)
    /\ pc' = "start_server"
    /\ UNCHANGED <<inputVars, wrappedToken, wrapErr, autoLoginParams,
                   sharedVars, deferred, waiterVars, resultCh, serverVars, h,
                   lastRequest, pushes, callVars, retVars>>
    /\ UNCHANGED cliVars

BuildAuthURL ==
    /\ pc = "build"
    /\ \E v \in Verifiers :
        /\ verifier' = v
        /\ authURL' = AuthCodeURL(EndpointAuthURL(autoLoginParams), clientID, v)
    /\ pc' = IF skipBrowser THEN "manual" ELSE "start_server"
    /\ UNCHANGED <<inputVars, wrappedToken, wrapErr, autoLoginParams,
                   sharedVars, deferred, waiterVars, resultCh, serverVars, h,
                   lastRequest, pushes, callVars, retVars>>
    /\ UNCHANGED cliVars

\* server, serverCh := startCallbackServer("45450"); defer server.Shutdown
StartCallbackServer ==
    /\ pc = "start_server"
    /\ resultCh' = <<>>
    /\ spc' = "start"
    /\ deferred' = TRUE
    /\ serverStarts' = serverStarts + 1
    /\ pc' = "spawn_waiter"
    /\ UNCHANGED <<inputVars, urlVars, sharedVars, waiterVars, srvErr,
                   srvInShutdown, srvListening, h, lastRequest, pushes, shutdownCalls,
                   browserCalls, browserErr, exchangeCalls, exchangeArgs,
                   tokenResp, wrapCalls, retVars, urlPrints,
                   printed>>
    /\ UNCHANGED cliVars

\* wg.Add(1); go func() { ... select ... }()
SpawnWaiter ==
    /\ pc = "spawn_waiter"
    /\ wpc' = "select"
    /\ pc' = "open_browser"
    /\ UNCHANGED <<inputVars, urlVars, sharedVars, deferred, branch, received,
                   resultCh, serverVars, h, lastRequest, pushes, callVars, retVars>>
    /\ UNCHANGED cliVars

\* Mutant: a failed launch is tried again.
OpenBrowserRetry ==
    /\ pc = "open_browser"
    /\ browserCalls' = browserCalls + 1
    /\ \E failed \in BOOLEAN :
        /\ browserErr' = failed
        /\ printed' = printed \cup BrowserOutput(authURL, failed)
        /\ urlPrints' = urlPrints + (IF failed THEN 2 ELSE 1)
        /\ pc' = IF failed THEN "open_browser" ELSE "wg_wait"
    /\ UNCHANGED <<inputVars, urlVars, sharedVars, deferred, waiterVars,
                   resultCh, serverVars, h, lastRequest, pushes, shutdownCalls,
                   exchangeCalls, exchangeArgs, tokenResp, wrapCalls,
                   serverStarts, retVars>>
    /\ UNCHANGED cliVars

\* Mutant: a failed launch aborts the attempt.
OpenBrowserFatal ==
    /\ pc = "open_browser"
    /\ browserCalls' = browserCalls + 1
    /\ \E failed \in BOOLEAN :
        /\ browserErr' = failed
        /\ printed' = printed \cup BrowserOutput(authURL, failed)
        /\ urlPrints' = urlPrints + (IF failed THEN 2 ELSE 1)
        /\ IF failed
           THEN Return("", <<"failed to open browser">>)
           ELSE pc' = "wg_wait" /\ UNCHANGED retVars
    /\ UNCHANGED <<inputVars, urlVars, sharedVars, deferred, waiterVars,
                   resultCh, serverVars, h, lastRequest, pushes, shutdownCalls,
                   exchangeCalls, exchangeArgs, tokenResp, wrapCalls,
                   serverStarts>>
    /\ UNCHANGED cliVars

\* The URL is printed ("If browser doesn't open automatically, visit: ...");
\* browser.OpenURL(authURL): whether or not it fails, the function goes on
\* to wg.Wait (a failure only prints the URL again).
OpenBrowser ==
    /\ pc = "open_browser"
    /\ browserCalls' = browserCalls + 1
    /\ \E failed \in BOOLEAN :
        /\ browserErr' = failed
        /\ printed' = printed \cup BrowserOutput(authURL, failed)
        /\ urlPrints' = urlPrints + (IF failed THEN 2 ELSE 1)
    /\ pc' = "wg_wait"
    /\ UNCHANGED <<inputVars, urlVars, sharedVars, deferred, waiterVars,
                   resultCh, serverVars, h, lastRequest, pushes, shutdownCalls,
                   exchangeCalls, exchangeArgs, tokenResp, wrapCalls,
                   serverStarts, retVars>>
    /\ UNCHANGED cliVars

\* Mutant: the orchestrator does not wait for the waiter goroutine.
WgWaitNoWait ==
    /\ pc = "wg_wait"
    /\ IF authError # NoError
       THEN Return("", authError)
       ELSE /\ pc' = "check_code"
            /\ UNCHANGED retVars
    /\ UNCHANGED <<inputVars, urlVars, sharedVars, deferred, waiterVars,
                   resultCh, serverVars, h, lastRequest, pushes, callVars>>
    /\ UNCHANGED cliVars

\* Mutant: authError is not looked at after the wait.
WgWaitIgnoreError ==
    /\ pc = "wg_wait"
    /\ wpc = "done"
    /\ pc' = "check_code"
    /\ UNCHANGED <<inputVars, urlVars, sharedVars, deferred, waiterVars,
                   resultCh, serverVars, h, lastRequest, pushes, callVars, retVars>>
    /\ UNCHANGED cliVars

\* wg.Wait(); if authError != nil { return "", authError }
WgWait ==
    /\ pc = "wg_wait"
    /\ wpc = "done"
    /\ IF authError # NoError
       THEN Return("", authError)
       ELSE /\ pc' = "check_code"
            /\ UNCHANGED retVars
    /\ UNCHANGED <<inputVars, urlVars, sharedVars, deferred, waiterVars,
                   resultCh, serverVars, h, lastRequest, pushes, callVars>>
    /\ UNCHANGED cliVars

\* Mutant: the error of fmt.Scanln is dropped.
ReadCodeIgnoreError ==
    /\ pc = "manual"
    /\ urlPrints' = urlPrints + 1
    /\ printed' = printed \cup ManualOutput(authURL)
    /\ \E typed \in TypedVals :
        LET r == Scanln[typed]
        IN  authCode' = IF r.stored THEN r.value ELSE authCode
    /\ pc' = "check_code"
    /\ UNCHANGED <<inputVars, urlVars, authError, deferred, waiterVars,
                   resultCh, serverVars, h, lastRequest, pushes, shutdownCalls,
                   browserCalls, browserErr, exchangeCalls, exchangeArgs,
                   tokenResp, wrapCalls, serverStarts, retVars>>
    /\ UNCHANGED cliVars

\* The URL is printed ("Visit this URL in your browser: ..."), then
\* fmt.Scanln(&authCode) on the manual path
ReadCode ==
    /\ pc = "manual"
    /\ urlPrints' = urlPrints + 1
    /\ printed' = printed \cup ManualOutput(authURL)
    /\ \E typed \in TypedVals :
        LET r == Scanln[typed]
        IN  /\ authCode' = IF r.stored THEN r.value ELSE authCode
            /\ IF r.err # NoError
               THEN Return("", wrapError("read authorization code", r.err))
               ELSE /\ pc' = "check_code"
                    /\ UNCHANGED retVars
    /\ UNCHANGED <<inputVars, urlVars, authError, deferred, waiterVars,
                   resultCh, serverVars, h, lastRequest, pushes, shutdownCalls,
                   browserCalls, browserErr, exchangeCalls, exchangeArgs,
                   tokenResp, wrapCalls, serverStarts>>
    /\ UNCHANGED cliVars

\* if authCode == "" { return "", fmt.Errorf("no authorization code received") }
CheckCode ==
    /\ pc = "check_code"
    /\ IF authCode = ""
       THEN Return("", ErrNoCode)
       ELSE /\ pc' = "exchange"
            /\ UNCHANGED retVars
    /\ UNCHANGED <<inputVars, urlVars, sharedVars, deferred, waiterVars,
                   resultCh, serverVars, h, lastRequest, pushes, callVars>>
    /\ UNCHANGED cliVars

\* Mutant: without a usable id_token the access token is returned.
exchangeCodeForTokenAccessFallback(resp) ==
    IF resp.failed
    THEN [token |-> "", err |-> wrapError("exchange code for token", ErrFetch)]
    ELSE IF resp.idToken[1] # "string" \/ resp.idToken[2] = ""
    THEN [token |-> resp.accessToken, err |-> NoError]
    ELSE [token |-> resp.idToken[2], err |-> NoError]

\* exchangeCodeForToken(config, authCode, verifier), given the answer
exchangeCodeForToken(resp) ==
    IF resp.failed
    THEN [token |-> "", err |-> wrapError("exchange code for token", ErrFetch)]
    ELSE IF resp.idToken[1] # "string" \/ resp.idToken[2] = ""
    THEN [token |-> "", err |-> ErrNoIDToken]
    ELSE [token |-> resp.idToken[2], err |-> NoError]

\* Mutant: a verifier is drawn again for the exchange.
ExchangeFreshVerifier ==
    /\ pc = "exchange"
    /\ exchangeCalls' = exchangeCalls + 1
    /\ \E v \in Verifiers : exchangeArgs' = <<authCode, v>>
    /\ \E resp \in TokenResponses :
        LET r == exchangeCodeForToken(resp)
        IN  /\ tokenResp' = resp
            /\ printed' = printed \cup ExchangeOutput(resp)
            /\ Return(r.token, r.err)
    /\ UNCHANGED <<inputVars, urlVars, sharedVars, deferred, waiterVars,
                   resultCh, serverVars, h, lastRequest, pushes, shutdownCalls,
                   browserCalls, browserErr, wrapCalls, serverStarts, urlPrints>>
    /\ UNCHANGED cliVars

\* return exchangeCodeForToken(config, authCode, verifier)
Exchange ==
    /\ pc = "exchange"
    /\ exchangeCalls' = exchangeCalls + 1
    /\ exchangeArgs' = <<authCode, verifier>>
    /\ \E resp \in TokenResponses :
        LET r == exchangeCodeForToken(resp)
        IN  /\ tokenResp' = resp
            /\ printed' = printed \cup ExchangeOutput(resp)
            /\ Return(r.token, r.err)
    /\ UNCHANGED <<inputVars, urlVars, sharedVars, deferred, waiterVars,
                   resultCh, serverVars, h, lastRequest, pushes, shutdownCalls,
                   browserCalls, browserErr, wrapCalls, serverStarts, urlPrints>>
    /\ UNCHANGED cliVars

\* The deferred server.Shutdown(context.Background()) is entered: the
\* server is marked as shutting down and its listener is closed.
ShutdownCall ==
    /\ pc = "shutdown"
    /\ shutdownCalls' = shutdownCalls + 1
    /\ srvInShutdown' = TRUE
    /\ srvListening' = FALSE
    /\ pc' = "shutdown_wait"
    /\ UNCHANGED <<inputVars, urlVars, sharedVars, deferred, waiterVars,
                   resultCh, spc, srvErr, h, lastRequest, pushes, browserCalls,
                   browserErr, exchangeCalls, exchangeArgs, tokenResp,
                   wrapCalls, serverStarts, retVars, urlPrints,
                   printed>>
    /\ UNCHANGED cliVars

\* A connection is active while its handler has not returned.
ActiveConns == {i \in Reqs : h[i].pc = "send"}

\* Mutant: Shutdown returns without waiting for the active connections.
ShutdownReturnNoWait ==
    /\ pc = "shutdown_wait"
    /\ pc' = "returned"
    /\ UNCHANGED <<inputVars, urlVars, sharedVars, deferred, waiterVars,
                   resultCh, serverVars, h, lastRequest, pushes, callVars, retVars>>
    /\ UNCHANGED cliVars

\* Shutdown returns once no connection is active; its context never expires.
ShutdownReturn ==
    /\ pc = "shutdown_wait"
    /\ ActiveConns = {}
    /\ pc' = "returned"
    /\ UNCHANGED <<inputVars, urlVars, sharedVars, deferred, waiterVars,
                   resultCh, serverVars, h, lastRequest, pushes, callVars, retVars>>
    /\ UNCHANGED cliVars

\* Mutant: a result whose state is not the one sent is turned into an error.
WaiterReceiveCheckState ==
    /\ wpc = "select"
    /\ Len(resultCh) > 0
    /\ LET result == Head(resultCh)
       IN  /\ received' = Append(received, result)
           /\ IF result.Error # NoError
              THEN authError' = result.Error /\ UNCHANGED authCode
              ELSE IF result.State # "state"
              THEN authError' = <<"state mismatch">> /\ UNCHANGED authCode
              ELSE authCode' = result.Code /\ UNCHANGED authError
    /\ resultCh' = Tail(resultCh)
    /\ branch' = "result"
    /\ wpc' = "done"
    /\ UNCHANGED <<inputVars, pc, urlVars, deferred, serverVars, h, lastRequest,
                   pushes, callVars, retVars>>
    /\ UNCHANGED cliVars

\* Mutant: the select sits in a loop and the receive branch does not leave it.
WaiterReceiveLoop ==
    /\ wpc = "select"
    /\ Len(resultCh) > 0
    /\ LET result == Head(resultCh)
       IN  /\ received' = Append(received, result)
           /\ IF result.Error # NoError
              THEN authError' = result.Error /\ UNCHANGED authCode
              ELSE authCode' = result.Code /\ UNCHANGED authError
    /\ resultCh' = Tail(resultCh)
    /\ branch' = "result"
    /\ wpc' \in {"select", "done"}
    /\ UNCHANGED <<inputVars, pc, urlVars, deferred, serverVars, h, lastRequest, pushes,
                   callVars, retVars>>
    /\ UNCHANGED cliVars

\* ------------------------------------------------------- waiter goroutine
\* case result := <-serverCh
WaiterReceive ==
    /\ wpc = "select"
    /\ Len(resultCh) > 0
    /\ LET result == Head(resultCh)
       IN  /\ received' = Append(received, result)
           /\ IF result.Error # NoError
              THEN authError' = result.Error /\ UNCHANGED authCode
              ELSE authCode' = result.Code /\ UNCHANGED authError
    /\ resultCh' = Tail(resultCh)
    /\ branch' = "result"
    /\ wpc' = "done"
    /\ UNCHANGED <<inputVars, pc, urlVars, deferred, serverVars, h, lastRequest, pushes,
                   callVars, retVars>>
    /\ UNCHANGED cliVars

\* Mutant: the timeout branch leaves authError nil.
WaiterTimeoutSilent ==
    /\ wpc = "select"
    /\ branch' = "timeout"
    /\ wpc' = "done"
    /\ UNCHANGED <<inputVars, pc, urlVars, sharedVars, deferred, received,
                   resultCh, serverVars, h, lastRequest, pushes, callVars, retVars>>
    /\ UNCHANGED cliVars

\* Mutant: the timeout case records the error and selects again.
WaiterTimeoutRearm ==
    /\ wpc = "select"
    /\ authError' = ErrTimeout
    /\ branch' = "timeout"
    /\ wpc' = "select"
    /\ UNCHANGED <<inputVars, pc, urlVars, authCode, deferred, received,
                   resultCh, serverVars, h, lastRequest, pushes, callVars, retVars>>
    /\ UNCHANGED cliVars

\* case <-time.After(5 * time.Minute)
WaiterTimeout ==
    /\ wpc = "select"
    /\ authError' = ErrTimeout
    /\ branch' = "timeout"
    /\ wpc' = "done"
    /\ UNCHANGED <<inputVars, pc, urlVars, authCode, deferred, received,
                   resultCh, serverVars, h, lastRequest, pushes, callVars, retVars>>
    /\ UNCHANGED cliVars

\* ------------------------------------------------------ serving goroutine
\* server.ListenAndServe() starts: it returns http.ErrServerClosed when the
\* server is already shutting down, returns the bind error when the port is
\* taken, or binds and serves.
ServeStart ==
    /\ spc = "start"
    /\ IF srvInShutdown
       THEN /\ spc' = "done"
            /\ UNCHANGED <<srvErr, srvListening>>
       ELSE \/ /\ spc' = "serving"
               /\ srvListening' = TRUE
               /\ UNCHANGED srvErr
            \/ /\ spc' = "send_err"
               /\ srvErr' = "bind"
               /\ UNCHANGED srvListening
    /\ UNCHANGED <<inputVars, pc, urlVars, sharedVars, deferred, waiterVars,
                   resultCh, srvInShutdown, h, lastRequest, pushes, callVars, retVars>>
    /\ UNCHANGED cliVars

\* ListenAndServe returns http.ErrServerClosed after Shutdown: nothing is sent.
ServeClosed ==
    /\ spc = "serving"
    /\ srvInShutdown
    /\ spc' = "done"
    /\ UNCHANGED <<inputVars, pc, urlVars, sharedVars, deferred, waiterVars,
                   resultCh, srvErr, srvInShutdown, srvListening, h, lastRequest, pushes,
                   callVars, retVars>>
    /\ UNCHANGED cliVars

\* resultCh <- callbackResult{Error: wrapError("callback server", err)}
ServeSendError ==
    /\ spc = "send_err"
    /\ Len(resultCh) < ChanCap
    /\ resultCh' = Append(resultCh,
          [Code |-> "", State |-> "",
           Error |-> wrapError("callback server", ErrBind),
           reqError |-> ""])
    /\ pushes' = pushes + 1
    /\ spc' = "done"
    /\ UNCHANGED <<inputVars, pc, urlVars, sharedVars, deferred, waiterVars,
                   srvErr, srvInShutdown, srvListening, h, lastRequest, callVars, retVars>>
    /\ UNCHANGED cliVars

\* ------------------------------------------------------ handler goroutines
\* A request reaches /oidc/callback: its handler reads the parameters and
\* is about to send its result.  Requests are numbered in order of arrival.
RequestArrives(i) ==
    /\ srvListening
    /\ h[i].pc = "idle"
    /\ \A j \in 1..(i - 1) : h[j].pc # "idle"
    /\ \E code \in CodeVals, state \in StateVals,
          errorParam \in ErrorVals, errorDesc \in ErrorDescVals :
        LET r == HandleCallback(code, state, errorParam, errorDesc)
        IN  /\ h' = [h EXCEPT ![i] = [pc |-> "send", res |-> r.res,
                                      status |-> r.status]]
            /\ lastRequest' = [id |-> i,
                               req |-> [code |-> code, state |-> state,
                                        error |-> errorParam,
                                        error_description |-> errorDesc]]
    /\ UNCHANGED <<inputVars, pc, urlVars, sharedVars, deferred, waiterVars,
                   resultCh, serverVars, pushes, callVars, retVars>>
    /\ UNCHANGED cliVars

\* resultCh <- callbackResult{...}; w.WriteHeader(status); return
HandlerSend(i) ==
    /\ h[i].pc = "send"
    /\ Len(resultCh) < ChanCap
    /\ resultCh' = Append(resultCh, h[i].res)
    /\ pushes' = pushes + 1
    /\ h' = [h EXCEPT ![i] = [pc |-> "done", res |-> NoResult,
                              status |-> h[i].status]]
    /\ lastRequest' = IF lastRequest.id = i THEN NoLastRequest
                      ELSE lastRequest
    /\ UNCHANGED <<inputVars, pc, urlVars, sharedVars, deferred, waiterVars,
                   serverVars, callVars, retVars>>
    /\ UNCHANGED cliVars

\* ------------------------------------------------------------------- Next
Next ==
    \/ CreateWrappedTokenStep
    \/ BuildAuthURL
    \/ StartCallbackServer
    \/ SpawnWaiter
    \/ OpenBrowser
    \/ WgWait
    \/ ReadCode
    \/ CheckCode
    \/ Exchange
    \/ ShutdownCall
    \/ ShutdownReturn
    \/ WaiterReceive
    \/ WaiterTimeout
    \/ ServeStart
    \/ ServeClosed
    \/ ServeSendError
    \/ \E i \in Reqs : RequestArrives(i)
    \/ \E i \in Reqs : HandlerSend(i)

Spec == Init /\ [][Next]_vars

\* ------------------------------------------------- the wait, with fairness
\* Callback requests considered when progress is explored.
LiveRequests == 1

LiveNext ==
    \/ CreateWrappedTokenStep
    \/ BuildAuthURL
    \/ StartCallbackServer
    \/ SpawnWaiter
    \/ OpenBrowser
    \/ WgWait
    \/ ReadCode
    \/ CheckCode
    \/ Exchange
    \/ ShutdownCall
    \/ ShutdownReturn
    \/ WaiterReceive
    \/ WaiterTimeout
    \/ ServeStart
    \/ ServeClosed
    \/ ServeSendError
    \/ \E i \in 1..LiveRequests : RequestArrives(i)
    \/ \E i \in 1..LiveRequests : HandlerSend(i)

\* The timer of time.After fires when its case stays ready, and a goroutine
\* that can take its next step is scheduled: the waiter's receive and the
\* return of wg.Wait.
LiveSpec ==
    /\ Init
    /\ [][LiveNext]_vars
    /\ WF_vars(WaiterTimeout)
    /\ WF_vars(WaiterReceive)
    /\ WF_vars(WgWait)

\* Client ids and bootstrap tokens with characters that are special in a
\* query string; the token is whatever the backend put into wrap_info.
URLClientIDVals ==
    {<<"abc">>, <<"a", " ", "b">>, <<"a", "&", "b">>, <<"a", "+", "b">>}
URLTokenVals ==
    {<<"hvs", ".", "T1">>, <<"hvs", ".", "T2">>, <<"a", "=", "b">>,
     <<"a", "+", "b">>, <<"x", "&", "client_id", "=", "evil">>}

\* performOIDCLogin has just been called, with any of these client ids.
URLInit ==
    /\ LoginInit
    /\ CliIdle
    /\ clientID \in URLClientIDVals
    /\ pc = "start"
    /\ cmd = "login"
    /\ cfgClientID = clientID
    /\ cfgJWT = ""
    /\ diskClientID = <<>>
    /\ diskJWT = ""
    /\ saveCalls = 0
    /\ cmdErr = NoError

\* wrappedToken, err := CreateWrappedToken(client), with any of these tokens.
CreateWrappedTokenAny ==
    /\ pc = "start"
    /\ \/ \E t \in URLTokenVals :
            /\ wrappedToken' = t
            /\ wrapErr' = FALSE
       \/ /\ wrappedToken' = <<>>
          /\ wrapErr' = TRUE
    /\ autoLoginParams' = AutoLoginParams(wrappedToken', wrapErr')
    /\ wrapCalls' = wrapCalls + 1
    /\ printed' = printed \cup WrapOutput(wrapErr')
    /\ pc' = "build"
    /\ UNCHANGED <<inputVars, verifier, authURL, sharedVars, deferred,
                   waiterVars, resultCh, serverVars, h, lastRequest, pushes,
                   shutdownCalls, browserCalls, browserErr, exchangeCalls,
                   exchangeArgs, tokenResp, serverStarts, retVars, urlPrints>>
    /\ UNCHANGED cliVars

URLNext ==
    \/ CreateWrappedTokenAny
    \/ BuildAuthURL

URLSpec == URLInit /\ [][URLNext]_vars

\* ------------------------------------------------------ the login command
\* Callback requests considered when the whole command is explored.
CmdRequests == 1

\* --client-id as given on the command line ("" when absent).
FlagClientIDVals == {<<>>, <<"abc">>}
\* service.client_id and service.jwt of the config file before the command.
StoredClientIDVals == {<<>>, <<"cfg">>}
StoredJWTVals == {"", "old"}

ErrClientIDRequired ==
    <<"client ID is required. Use --client-id flag or set it in config">>
ErrVaultAddr == <<"vault address not configured">>
ErrWriteConfig == <<"open config file: permission denied">>

\* Everything performOIDCLogin owns, except its position and its clientID.
loginVars == <<skipBrowser, urlVars, sharedVars, deferred, waiterVars, resultCh,
               serverVars, h, lastRequest, pushes, callVars, retVars>>

\* RunE of serviceLoginCmd is entered: config.Init has loaded the file into
\* cfg, the flags are parsed, nothing of the login has run.
CmdInit ==
    /\ LoginInit
    /\ CliIdle
    /\ pc = "idle"
    /\ cmd = "start"
    /\ clientID \in FlagClientIDVals
    /\ diskClientID \in StoredClientIDVals
    /\ diskJWT \in StoredJWTVals
    /\ cfgClientID = diskClientID
    /\ cfgJWT = diskJWT
    /\ saveCalls = 0
    /\ cmdErr = NoError

\* Mutant: the empty client id is not rejected.
LoginResolveClientIDNoCheck ==
    /\ cmd = "start"
    /\ LET cid == IF clientID = <<>> THEN cfgClientID ELSE clientID
       IN  /\ clientID' = cid
           /\ cfgClientID' = cid
           /\ cmd' = "new_client"
           /\ UNCHANGED cmdErr
    /\ UNCHANGED <<pc, cfgJWT, diskClientID, diskJWT, saveCalls, loginVars>>
    /\ UNCHANGED cliVars

\* if clientID == "" { clientID = cfg.Service.ClientID }
\* if clientID == "" { return fmt.Errorf("client ID is required...") }
\* cfg.Service.ClientID = clientID
LoginResolveClientID ==
    /\ cmd = "start"
    /\ LET cid == IF clientID = <<>> THEN cfgClientID ELSE clientID
       IN  /\ clientID' = cid
           /\ IF cid = <<>>
              THEN /\ cmdErr' = ErrClientIDRequired
                   /\ cmd' = "done"
                   /\ UNCHANGED cfgClientID
              ELSE /\ cfgClientID' = cid
                   /\ cmd' = "new_client"
                   /\ UNCHANGED cmdErr
    /\ UNCHANGED <<pc, cfgJWT, diskClientID, diskJWT, saveCalls, loginVars>>
    /\ UNCHANGED cliVars

\* client, err := vault.NewClient(vaultConfig); on success performOIDCLogin
\* is called.
LoginNewVaultClient ==
    /\ cmd = "new_client"
    /\ \E failed \in BOOLEAN :
        IF failed
        THEN /\ cmdErr' = wrapError("create vault client", ErrVaultAddr)
             /\ cmd' = "done"
             /\ UNCHANGED pc
        ELSE /\ cmd' = "login"
             /\ pc' = "start"
             /\ UNCHANGED cmdErr
    /\ UNCHANGED <<clientID, cfgClientID, cfgJWT, diskClientID, diskJWT,
                   saveCalls, loginVars>>
    /\ UNCHANGED cliVars

\* config.SaveConfig(): viper.WriteConfigAs writes cfg (client id cid, token
\* jwt) to the file or fails.
SaveConfig(failed, cid, jwt) ==
    /\ saveCalls' = saveCalls + 1
    /\ IF failed
       THEN UNCHANGED <<diskClientID, diskJWT>>
       ELSE /\ diskClientID' = cid
            /\ diskJWT' = jwt

\* Mutant: the returned token is stored whatever the error.
LoginReturnStoreAlways ==
    /\ cmd = "login"
    /\ pc = "returned"
    /\ cfgJWT' = retToken
    /\ cmd' = "done"
    /\ \E failed \in BOOLEAN :
        /\ SaveConfig(failed, cfgClientID, retToken)
        /\ cmdErr' = IF retErr # NoError THEN wrapError("OIDC login", retErr)
                     ELSE IF failed
                     THEN wrapError("save authentication data", ErrWriteConfig)
                     ELSE NoError
    /\ UNCHANGED <<clientID, pc, cfgClientID, loginVars>>
    /\ UNCHANGED cliVars

\* jwt, err := performOIDCLogin(...) has returned:
\* if err != nil { return wrapError("OIDC login", err) }
\* cfg.Service.JWT = jwt; if err := config.SaveConfig(); err != nil { ... }
LoginReturn ==
    /\ cmd = "login"
    /\ pc = "returned"
    /\ cmd' = "done"
    /\ IF retErr # NoError
       THEN /\ cmdErr' = wrapError("OIDC login", retErr)
            /\ UNCHANGED <<cfgJWT, diskClientID, diskJWT, saveCalls>>
       ELSE /\ cfgJWT' = retToken
            /\ \E failed \in BOOLEAN :
                /\ SaveConfig(failed, cfgClientID, retToken)
                /\ cmdErr' = IF failed
                             THEN wrapError("save authentication data",
                                            ErrWriteConfig)
                             ELSE NoError
    /\ UNCHANGED <<clientID, pc, cfgClientID, loginVars>>
    /\ UNCHANGED cliVars

CmdNext ==
    \/ LoginResolveClientID
    \/ LoginNewVaultClient
    \/ LoginReturn
    \/ CreateWrappedTokenStep
    \/ BuildAuthURL
    \/ StartCallbackServer
    \/ SpawnWaiter
    \/ OpenBrowser
    \/ WgWait
    \/ ReadCode
    \/ CheckCode
    \/ Exchange
    \/ ShutdownCall
    \/ ShutdownReturn
    \/ WaiterReceive
    \/ WaiterTimeout
    \/ ServeStart
    \/ ServeClosed
    \/ ServeSendError
    \/ \E i \in 1..CmdRequests : RequestArrives(i)
    \/ \E i \in 1..CmdRequests : HandlerSend(i)

CmdSpec == CmdInit /\ [][CmdNext]_vars

\* ============================================================== properties
\* performOIDCLogin has executed a return statement.
Returning == pc \in {"shutdown", "shutdown_wait", "returned"}

\* The result the waiter read from serverCh, if any.
GotResult == Len(received) > 0
Got == received[1]

\* C1: with skipBrowser=false the listener's Shutdown is invoked exactly once
\* by the time performOIDCLogin returns, on every path: never twice at any
\* moment and never zero times at the return.
C1_ShutdownExactlyOnce ==
    ~skipBrowser =>
        /\ shutdownCalls <= 1
        /\ (pc = "returned" => shutdownCalls = 1)

\* C1 witness: a failed attempt has returned after one Shutdown.
C1_Witness ==
    /\ ~skipBrowser
    /\ pc = "returned"
    /\ retErr # NoError
    /\ shutdownCalls = 1

\* C2: once the orchestrator has finished waiting and entered Shutdown, the
\* Shutdown is never blocked for good: either it can return, or a handler
\* it waits for can still finish (nobody receives from the channel any more
\* after the wait, so a handler that cannot send now never will).
C2_ShutdownNeverBlocks ==
    pc = "shutdown_wait" =>
        \/ ENABLED ShutdownReturn
        \/ \E i \in ActiveConns : ENABLED HandlerSend(i)

\* C3: on the listener path the Token Exchanger is invoked only after the
\* listener has been shut down.
C3_ShutdownBeforeExchange ==
    (~skipBrowser /\ exchangeCalls > 0) =>
        /\ shutdownCalls > 0
        /\ ~srvListening

\* C4: the listener side writes to the result channel at most once per
\* login attempt.
C4_AtMostOneResultWritten == pushes <= 1

\* C5: exactly one branch of the race wins: the orchestrator reads at most
\* one result, and once the timeout has won nothing was read, the error
\* stays the timeout error and no code is exchanged, whatever arrives later.
C5_OneBranchWins ==
    /\ Len(received) <= 1
    /\ (branch = "result" <=> GotResult)
    /\ branch = "timeout" =>
        /\ authError = ErrTimeout
        /\ authCode = ""
        /\ exchangeCalls = 0
        /\ (Returning => retErr = ErrTimeout /\ retToken = "")

\* C5 witness: the timeout won, a callback with a code was written to the
\* channel all the same, and the attempt returned.
C5_Witness ==
    /\ branch = "timeout"
    /\ pc = "returned"
    /\ Len(resultCh) = 1
    /\ resultCh[1].Code = "c1"

\* C6: when the listener cannot bind its port the browser is never launched:
\* once the bind has failed, no step of the attempt calls browser.OpenURL.
C6_NoBrowserAfterBindFailure ==
    [][srvErr = "bind" => browserCalls' = browserCalls]_vars

\* C7: when the callback the orchestrator received carried
\* error=access_denied, the returned error contains "access_denied" and the
\* Token Exchanger is never invoked.
C7_AccessDenied ==
    (GotResult /\ Got.reqError = "access_denied") =>
        /\ exchangeCalls = 0
        /\ pc # "exchange"
        /\ (Returning => Contains(retErr, "access_denied") /\ retToken = "")

\* C7 witness: such an attempt has returned with the provider's error.
C7_Witness ==
    /\ pc = "returned"
    /\ GotResult
    /\ Got.reqError = "access_denied"
    /\ Contains(retErr, "access_denied")

\* C8: when nothing reached the orchestrator within the timeout window,
\* performOIDCLogin returns the timeout error and no token, and the listener
\* has been shut down by the time it returns.
C8_TimeoutError ==
    (~skipBrowser /\ pc = "returned" /\ ~GotResult) =>
        /\ retErr = ErrTimeout
        /\ retToken = ""
        /\ shutdownCalls = 1
        /\ srvInShutdown
        /\ ~srvListening

\* C8 witness: an attempt in which no request ever arrived has returned.
C8_Witness ==
    /\ ~skipBrowser
    /\ pc = "returned"
    /\ pushes = 0
    /\ retErr = ErrTimeout

\* C9: the Token Exchanger is invoked only with the non-empty code of the
\* Success result the wait resolved with (or with the typed code); after a
\* failure result or the timeout the corresponding error is returned and no
\* exchange is attempted.
C9_ExchangeOnlyAfterSuccess ==
    /\ (exchangeCalls > 0 \/ pc = "exchange") =>
        /\ authCode # ""
        /\ authError = NoError
        /\ \/ skipBrowser
           \/ /\ wpc = "done"
              /\ GotResult
              /\ Got.Error = NoError
              /\ Got.Code = authCode
    /\ exchangeCalls > 0 => exchangeArgs[1] = authCode
    /\ (~skipBrowser /\ Returning /\ (~GotResult \/ Got.Error # NoError)) =>
        /\ exchangeCalls = 0
        /\ retToken = ""
        /\ retErr = IF GotResult THEN Got.Error ELSE ErrTimeout

\* C9 witness: the exchange was invoked with the code of a callback.
C9_Witness ==
    /\ ~skipBrowser
    /\ exchangeCalls = 1
    /\ exchangeArgs[1] = "c1"
    /\ pc = "returned"

\* C10: when CreateWrappedToken fails the login goes on: the authorization
\* URL has neither a wrapped_token nor a with parameter, nothing is returned
\* before the wait (or the manual entry) is over, and a valid callback is
\* still followed by the token exchange.
C10_WrapFailureNotFatal ==
    wrapErr =>
        /\ autoLoginParams = <<>>
        /\ authURL # <<>> =>
            LET keys == QueryKeys(authURL)
            IN  /\ <<"wrapped_token">> \notin keys
                /\ <<"with">> \notin keys
                /\ <<"client_id">> \in keys
        /\ Returning =>
            /\ authURL # <<>>
            /\ skipBrowser \/ wpc = "done"
        /\ (pc = "returned" /\ GotResult /\ Got.Error = NoError) =>
            exchangeCalls = 1

\* C10 witness: the wrapped token failed and the attempt ended with a token.
C10_Witness ==
    /\ wrapErr
    /\ ~skipBrowser
    /\ pc = "returned"
    /\ exchangeCalls = 1
    /\ retToken = "eyXYZ"

\* C11: in every attempt the verifier passed to the token exchange is the
\* one whose S256 challenge is in the authorization URL of that attempt; the
\* verifier is drawn once and stays the same from the URL to the exchange.
C11_VerifierBound ==
    /\ authURL # <<>> =>
        /\ verifier \in Verifiers
        /\ QueryValues(authURL, "code_challenge")
             = << <<<<"code_challenge">>, <<S256[verifier]>>>> >>
        /\ QueryGet(authURL, "code_challenge_method") = <<"S256">>
    /\ exchangeCalls > 0 =>
        /\ exchangeArgs[2] \in Verifiers
        /\ QueryGet(authURL, "code_challenge") = <<S256[exchangeArgs[2]]>>

\* C11 witness: a successful attempt.
C11_Witness ==
    /\ pc = "returned"
    /\ exchangeCalls = 1
    /\ retToken = "eyXYZ"
    /\ QueryGet(authURL, "code_challenge") = <<S256[exchangeArgs[2]]>>

\* C12: the handler classifies a request in this order: a non-empty error
\* parameter gives a Failure built from error and the optional
\* error_description with status 400, also when a code is present; otherwise
\* a non-empty code gives Success{code, state} with status 200; otherwise
\* the Failure "no authorization code received" with status 400.
C12_HandlerClassification ==
    \A i \in Reqs :
        /\ (lastRequest.id = i /\ h[i].pc = "send") =>
            LET q == lastRequest.req
                r == h[i].res
            IN  IF q.error # ""
                THEN /\ r.Error = <<"OIDC error: ", q.error>>
                                  \o (IF q.error_description # ""
                                      THEN <<" - ", q.error_description>>
                                      ELSE <<>>)
                     /\ r.Code = ""
                     /\ h[i].status = 400
                ELSE IF q.code # ""
                THEN /\ r.Error = NoError
                     /\ r.Code = q.code
                     /\ r.State = q.state
                     /\ h[i].status = 200
                ELSE /\ r.Error = <<"no authorization code received">>
                     /\ r.Code = ""
                     /\ h[i].status = 400
        /\ h[i].pc = "done" => h[i].status \in {200, 400}

\* C12 witness: a request with both an error and a code is being answered
\* as a failure.
C12_Witness ==
    \E i \in Reqs :
        /\ lastRequest.id = i
        /\ h[i].pc = "send"
        /\ lastRequest.req.error = "access_denied"
        /\ lastRequest.req.code = "c1"
        /\ h[i].status = 400
        /\ Contains(h[i].res.Error, "access_denied")

\* C13: with skipBrowser=true the callback listener is never started and the
\* browser is never launched; the authorization code comes only from the
\* terminal, and a failure to read it returns an error with no token
\* exchange.
C13_ManualPath ==
    skipBrowser =>
        /\ serverStarts = 0
        /\ spc = "none"
        /\ ~srvListening
        /\ wpc = "none"
        /\ browserCalls = 0
        /\ shutdownCalls = 0
        /\ pushes = 0
        /\ received = <<>>
        /\ authCode # "" =>
            \E typed \in TypedVals :
                Scanln[typed].stored /\ authCode = Scanln[typed].value
        /\ exchangeCalls > 0 =>
            /\ exchangeArgs[1] = authCode
            /\ retErr \notin {wrapError("read authorization code", e) :
                                e \in {ErrScan, ErrScanExtra}}
        /\ (pc = "returned" /\ exchangeCalls = 0) =>
            /\ retToken = ""
            /\ retErr \in {wrapError("read authorization code", e) :
                             e \in {ErrScan, ErrScanExtra}}

\* C13 witness: on the manual path a line with a trailing word stored a code
\* and still ended the attempt with the read error, without an exchange.
C13_Witness ==
    /\ skipBrowser
    /\ pc = "returned"
    /\ authCode = "c1"
    /\ retErr = wrapError("read authorization code", ErrScanExtra)
    /\ exchangeCalls = 0
    /\ serverStarts = 0

\* C14: the login command fails with an error when the client id is empty
\* in both the --client-id flag and the stored config, before any network
\* call: no bootstrap-token request, no listener, no browser launch, no
\* token exchange; performOIDCLogin is entered only with a client id.
C14_ClientIDRequired ==
    /\ (cmd # "start" /\ clientID = <<>>) =>
        /\ cmd = "done"
        /\ cmdErr = ErrClientIDRequired
        /\ cfgClientID = <<>>
        /\ pc = "idle"
        /\ wrapCalls = 0
        /\ serverStarts = 0
        /\ ~srvListening
        /\ browserCalls = 0
        /\ exchangeCalls = 0
        /\ saveCalls = 0
    /\ pc # "idle" => clientID # <<>>
    /\ (wrapCalls > 0 \/ serverStarts > 0 \/ browserCalls > 0
            \/ exchangeCalls > 0) => clientID # <<>>

\* C14 witness: the command ended with the client-id error, neither the
\* flag nor the config having one.
C14_Witness ==
    /\ cmd = "done"
    /\ clientID = <<>>
    /\ diskClientID = <<>>
    /\ cmdErr = ErrClientIDRequired
    /\ pc = "idle"

\* C15: the Token Exchanger returns the id_token extension field when the
\* exchange succeeded and the field is a non-empty string; when the exchange
\* failed, or the field is absent, empty or not a string, it returns an
\* error and no token, even though an access token was received.
C15_TokenExchanger ==
    (exchangeCalls > 0 /\ Returning) =>
        /\ tokenResp \in TokenResponses
        /\ IF  /\ ~tokenResp.failed
               /\ Len(tokenResp.idToken) = 2
               /\ tokenResp.idToken[1] = "string"
               /\ tokenResp.idToken[2] # ""
           THEN /\ retToken = tokenResp.idToken[2]
                /\ retErr = NoError
           ELSE /\ retToken = ""
                /\ retErr # NoError
                /\ retErr = IF tokenResp.failed
                            THEN wrapError("exchange code for token", ErrFetch)
                            ELSE ErrNoIDToken
        /\ tokenResp.accessToken # "" => retToken # tokenResp.accessToken

\* C15 witness: an answer with an access token and a non-string id_token
\* ended the attempt with the missing-ID-token error and no token.
C15_Witness ==
    /\ pc = "returned"
    /\ exchangeCalls = 1
    /\ tokenResp.accessToken = "x"
    /\ tokenResp.idToken = <<"number", "7">>
    /\ retToken = ""
    /\ retErr = ErrNoIDToken

\* C16: a failure to launch the browser is not fatal: the URL is printed for
\* manual use, the listener is left running while the function waits, the
\* function returns only after the waiter got a result or timed out, and a
\* valid callback after the failed launch completes the login.
C16_BrowserFailureNotFatal ==
    browserErr =>
        /\ browserCalls = 1
        /\ urlPrints = 2
        /\ pc \in {"wg_wait", "check_code", "exchange", "shutdown",
                   "shutdown_wait", "returned"}
        /\ pc = "wg_wait" => (shutdownCalls = 0 /\ ~srvInShutdown)
        /\ pc # "wg_wait" => wpc = "done"
        /\ Returning =>
            \/ branch = "timeout" /\ retErr = ErrTimeout
            \/ branch = "result" /\ GotResult
        /\ (Returning /\ GotResult /\ Got.Error = NoError) =>
            /\ exchangeCalls = 1
            /\ exchangeArgs[1] = Got.Code
            /\ retErr = exchangeCodeForToken(tokenResp).err
            /\ retToken = exchangeCodeForToken(tokenResp).token

\* C16 witness: the browser could not be launched, a callback with a code
\* arrived anyway and the attempt returned the identity token.
C16_Witness ==
    /\ browserErr
    /\ pc = "returned"
    /\ GotResult
    /\ Got.Code = "c1"
    /\ exchangeCalls = 1
    /\ retToken = "eyXYZ"
    /\ retErr = NoError

\* C17: the stored service JWT is written iff the login succeeded:
\* SaveConfig is called by the command only after performOIDCLogin returned
\* a token, the stored JWT then equals that token, and when the login fails
\* at any stage the persisted JWT and client id are left as they were.
C17_JWTStoredIffSuccess ==
    /\ [](/\ saveCalls \in {0, 1}
          /\ saveCalls = 1 =>
              /\ cmd = "done"
              /\ pc = "returned"
              /\ retErr = NoError
              /\ retToken # ""
              /\ cfgJWT = retToken
          /\ (cmd = "done" /\ cmdErr = NoError) =>
              /\ saveCalls = 1
              /\ diskJWT = retToken
              /\ diskClientID = clientID
          /\ (cmd = "done" /\ (pc # "returned" \/ retErr # NoError)) =>
              /\ saveCalls = 0
              /\ cmdErr # NoError)
    /\ [][/\ saveCalls' # saveCalls =>
               /\ cmd = "login"
               /\ pc = "returned"
               /\ retErr = NoError
               /\ retToken # ""
               /\ saveCalls' = saveCalls + 1
          /\ (diskJWT' # diskJWT \/ diskClientID' # diskClientID) =>
               /\ saveCalls' = saveCalls + 1
               /\ diskJWT' = retToken
               /\ diskClientID' = clientID
               /\ cmdErr' = NoError]_vars

\* C17 witness: the command succeeded and the token of the login replaced
\* the JWT that was stored before.
C17_Witness ==
    /\ cmd = "done"
    /\ cmdErr = NoError
    /\ saveCalls = 1
    /\ retToken = "eyXYZ"
    /\ diskJWT = "eyXYZ"
    /\ diskClientID = <<"abc">>

\* C18: within one login attempt nothing is retried: the bootstrap-token
\* request, the listener start, the browser launch and the token exchange
\* are each performed at most once, also after any of them failed.
C18_NoRetries ==
    /\ wrapCalls \in {0, 1}
    /\ serverStarts \in {0, 1}
    /\ browserCalls \in {0, 1}
    /\ exchangeCalls \in {0, 1}
    /\ wrapErr => wrapCalls = 1
    /\ srvErr = "bind" => serverStarts = 1
    /\ browserErr => browserCalls = 1
    /\ tokenResp.failed => exchangeCalls = 1

\* C18 witness: the bootstrap-token request, the browser launch and the
\* exchange all failed, and the attempt ended with each tried once.
C18_Witness ==
    /\ pc = "returned"
    /\ wrapErr
    /\ browserErr
    /\ tokenResp.failed
    /\ wrapCalls = 1
    /\ serverStarts = 1
    /\ browserCalls = 1
    /\ exchangeCalls = 1
    /\ retErr = wrapError("exchange code for token", ErrFetch)

\* Parameter k occurs exactly once in the query of u, with value v.
OnlyValue(u, k, v) == QueryValues(u, k) = << << <<k>>, v >> >>

\* The words of a space-separated scope value.
ScopeSet(v) ==
    LET words == SplitOn(v, " ")
    IN  {words[i] : i \in DOMAIN words}

\* C19: every query parameter of the authorization URL is percent-encoded,
\* the optional bootstrap token included: parsing the query returns exactly
\* that token under wrapped_token and every other parameter unchanged.
C19_AllParamsEncoded ==
    authURL # <<>> =>
        /\ ~wrapErr =>
            /\ OnlyValue(authURL, "wrapped_token", wrappedToken)
            /\ OnlyValue(authURL, "with", <<"token">>)
        /\ wrapErr =>
            /\ ~HasParam(authURL, "wrapped_token")
            /\ ~HasParam(authURL, "with")
        /\ OnlyValue(authURL, "client_id", clientID)
        /\ OnlyValue(authURL, "code_challenge", <<S256[verifier]>>)
        /\ OnlyValue(authURL, "code_challenge_method", <<"S256">>)
        /\ OnlyValue(authURL, "redirect_uri", RedirectURI)
        /\ OnlyValue(authURL, "response_type", <<"code">>)
        /\ OnlyValue(authURL, "scope", Scopes)
        /\ OnlyValue(authURL, "state", <<"state">>)
        /\ Len(Query(authURL)) = IF wrapErr THEN 7 ELSE 9

\* C20: parsing the query of the built URL yields exactly the client_id,
\* the redirect_uri and the set of scopes it was built from, with and
\* without a bootstrap token.
C20_RoundTrip ==
    authURL # <<>> =>
        /\ OnlyValue(authURL, "client_id", clientID)
        /\ OnlyValue(authURL, "redirect_uri", RedirectURI)
        /\ Len(QueryValues(authURL, "scope")) = 1
        /\ ScopeSet(QueryGet(authURL, "scope"))
             = {<<"openid">>, <<"profile">>, <<"messenger_options">>}

\* Sequence t occurs in sequence s as a contiguous run.
ContainsSeq(s, t) ==
    \E i \in 1..(Len(s) - Len(t) + 1) : SubSeq(s, i, i + Len(t) - 1) = t

\* C21: the bootstrap token is never written in full to the output: no line
\* printed by a login attempt contains the complete bootstrap token.
C21_TokenNeverPrinted ==
    (~wrapErr /\ wrappedToken # <<>>) =>
        \A line \in printed : ~ContainsSeq(line, wrappedToken)

\* C22: the state parameter of the authorization request is an opaque
\* random string chosen for the attempt, not a fixed constant: the URL
\* carries exactly one state, and it is not the literal "state" that every
\* other attempt would send as well.
C22_StateIsRandom ==
    authURL # <<>> =>
        /\ Len(QueryValues(authURL, "state")) = 1
        /\ QueryGet(authURL, "state") # <<"state">>

\* C23: with skipBrowser=false the interactive wait always ends: once the
\* orchestrator waits in wg.Wait, it eventually gets past it, the waiter
\* having finished with either one received result or the timeout, whatever
\* the listener and the browser did.
C23_WaitEnds ==
    (pc = "wg_wait") ~>
        (/\ pc # "wg_wait"
         /\ wpc = "done"
         /\ \/ branch = "timeout" /\ received = <<>>
            \/ branch = "result" /\ Len(received) = 1)

\* C23 witness: the browser could not be launched, no request was ever
\* answered, the timeout ended the wait and the orchestrator went on.
C23_Witness ==
    /\ ~skipBrowser
    /\ browserErr
    /\ pushes = 0
    /\ wpc = "done"
    /\ branch = "timeout"
    /\ pc = "returned"
    /\ retErr = ErrTimeout

\* server.Shutdown has returned.
ShutdownCompleted == shutdownCalls > 0 /\ pc = "returned"

\* Position of the listener in Idle (0), Listening (1), Completed (2),
\* ShutDown (3).
ListenerRank ==
    IF srvInShutdown THEN 3
    ELSE IF \E i \in Reqs : h[i].pc = "done" THEN 2
    ELSE IF srvListening THEN 1
    ELSE 0

C25_SharedVarsAfterWait ==
    /\ [](~skipBrowser =>
            /\ wpc # "done" => (authCode = "" /\ authError = NoError)
            /\ pc \in {"check_code", "exchange", "shutdown", "shutdown_wait",
                       "returned"} => wpc = "done"
            /\ (wpc = "done" /\ branch = "result") =>
                 (authCode # "") # (authError # NoError)
            /\ (wpc = "done" /\ branch = "timeout") =>
                 (authCode = "" /\ authError = ErrTimeout))
    /\ [][~skipBrowser =>
            /\ (authCode' # authCode \/ authError' # authError) =>
                 (wpc = "select" /\ wpc' = "done" /\ pc' = pc)
            /\ (pc \in {"wg_wait", "check_code", "exchange"} /\ pc' # pc) =>
                 (wpc = "done" /\ UNCHANGED <<authCode, authError>>)]_vars

\* C25 witness: the orchestrator is past wg.Wait and reads the code the
\* finished waiter stored.
C25_Witness ==
    /\ ~skipBrowser
    /\ pc = "check_code"
    /\ wpc = "done"
    /\ branch = "result"
    /\ authCode = "c1"
    /\ authError = NoError

\* The waiter received the result of a callback that carried neither an
\* error nor a code.
GotEmptyCode ==
    /\ GotResult
    /\ \E st \in StateVals, d \in ErrorDescVals :
          Got = HandleCallback("", st, "", d).res

\* The attempt has returned on the manual path after an empty line was
\* typed.
TypedEmptyCode == skipBrowser /\ pc = "returned" /\ authCode = ""

\* C26, as stated: the Token Exchanger is never invoked with an empty
\* authorization code, and an empty code makes performOIDCLogin return
\* "no authorization code received" without an exchange, on the listener
\* path and on the manual-entry path alike.
C26_EmptyCodeSameError ==
    /\ exchangeCalls > 0 => exchangeArgs[1] # ""
    /\ pc = "exchange" => authCode # ""
    /\ ((~skipBrowser /\ pc = "returned" /\ GotEmptyCode) \/ TypedEmptyCode) =>
        /\ retErr = ErrNoCode
        /\ retToken = ""
        /\ exchangeCalls = 0

\* C26, amended: the Token Exchanger is never invoked with an empty
\* authorization code; a callback without a code makes performOIDCLogin
\* return "no authorization code received", an empty line on the manual path
\* makes it return the wrapped read error, both without an exchange.
C26_EmptyCodeNoExchange ==
    /\ exchangeCalls > 0 => exchangeArgs[1] # ""
    /\ pc = "exchange" => authCode # ""
    /\ (~skipBrowser /\ pc = "returned" /\ GotEmptyCode) =>
        /\ retErr = ErrNoCode
        /\ retToken = ""
        /\ exchangeCalls = 0
    /\ TypedEmptyCode =>
        /\ retErr = wrapError("read authorization code", ErrScan)
        /\ retToken = ""
        /\ exchangeCalls = 0

\* C26 witness: an empty line was typed on the manual path and the attempt
\* ended with the read error, without an exchange.
C26_Witness ==
    /\ TypedEmptyCode
    /\ retErr = wrapError("read authorization code", ErrScan)
    /\ exchangeCalls = 0

\* C27: the orchestrator exchanges the code of the Success result it
\* receives whatever the callback's state is: the state is never compared
\* with the one sent in the authorization URL, so a different or missing
\* state is treated exactly like the matching one.
C27_StateNotCompared ==
    (~skipBrowser /\ GotResult /\ Got.Error = NoError) =>
        /\ Got.State \in StateVals
        /\ authCode = Got.Code
        /\ authError = NoError
        /\ Returning =>
            /\ exchangeCalls = 1
            /\ exchangeArgs = <<Got.Code, verifier>>
            /\ retToken = exchangeCodeForToken(tokenResp).token
            /\ retErr = exchangeCodeForToken(tokenResp).err

\* C27 witness: the URL carried state=state, the callback came back with
\* another state, and the attempt returned the identity token.
C27_Witness ==
    /\ pc = "returned"
    /\ QueryGet(authURL, "state") = <<"state">>
    /\ GotResult
    /\ Got.State = "other"
    /\ Got.Code = "c1"
    /\ exchangeCalls = 1
    /\ retToken = "eyXYZ"
    /\ retErr = NoError

\* ================================================= the service commands
\* gateplane service login | logout | status, each run as a process of its
\* own: PersistentPreRun calls config.Init, then the command's RunE runs.

\* vault.address and vault.token of the config file (the namespace, handled
\* like the address, is left out).
StoredAddrVals == {"https://cfg"}
StoredTokenVals == {"", "hvs.C"}
StoredJWKSVals == {"", "keys"}
\* VAULT_ADDR, VAULT_TOKEN and the contents of ~/.vault-token.
EnvAddrVals == {"", "https://env"}
EnvTokenVals == {"", "hvs.E"}
VaultFileVals == {"", "hvs.F"}

\* What performOIDCLogin may return to the login command.
LoginOutcomes ==
    {[token |-> "eyXYZ", err |-> NoError],
     [token |-> "", err |-> ErrTimeout],
     [token |-> "", err |-> ErrNoIDToken]}

ErrNoJWT == <<"service JWT not configured">>
LoggedOutLine == <<"Logged out from GatePlane Services">>
NotAuthenticatedLine ==
    <<"Not authenticated with GatePlane Services (using Community Edition features)">>
ServiceAddressLine == <<"Service Address: ", "https://backend.gateplane.io">>
LoginSuccessLine == <<"Successfully authenticated with GatePlane Services">>

\* config.Init with the config file f present: viper reads the file, the
\* bound variables VAULT_ADDR and VAULT_TOKEN override its vault keys, and
\* without VAULT_TOKEN a readable, non-empty ~/.vault-token replaces the
\* token.
LoadConfig(f, e) ==
    [f EXCEPT
        !.vault.address = IF e.VAULT_ADDR # "" THEN e.VAULT_ADDR ELSE @,
        !.vault.token = IF e.VAULT_TOKEN # "" THEN e.VAULT_TOKEN
                        ELSE IF e.vaultFile # "" THEN e.vaultFile
                        ELSE @]

\* service.NewClient()
NewClient(c) ==
    IF c.service.jwt = ""
    THEN [ok |-> FALSE, jwt |-> "", err |-> ErrNoJWT]
    ELSE [ok |-> TRUE, jwt |-> c.service.jwt, err |-> NoError]

\* createServiceClient(), taken to be service.NewClient()
createServiceClient(c) == NewClient(c)

\* config.SaveConfig(): the whole of cfg replaces the file, or the write
\* fails and the file stays.
WriteConfig(failed, c) == file' = IF failed THEN file ELSE c

\* The record of a finished command.
Ran(name, arg, err, out) ==
    [cmd |-> name, err |-> err, out |-> out, before |-> file, arg |-> arg]

\* No login attempt is running.
LoginIdle ==
    /\ LoginInit
    /\ skipBrowser = FALSE
    /\ clientID = <<>>
    /\ pc = "idle"
    /\ cmd = "idle"
    /\ cfgClientID = <<>>
    /\ cfgJWT = ""
    /\ diskClientID = <<>>
    /\ diskJWT = ""
    /\ saveCalls = 0
    /\ cmdErr = NoError

\* The machine before any of the commands: a config file, an environment.
SvcInit ==
    /\ LoginIdle
    /\ \E a \in StoredAddrVals, t \in StoredTokenVals, c \in StoredClientIDVals,
          j \in StoredJWTVals, k \in StoredJWKSVals :
          file = [vault |-> [address |-> a, token |-> t],
                  service |-> [clientID |-> c, jwt |-> j, jwks |-> k],
                  gates |-> <<>>]
    /\ \E a \in EnvAddrVals, t \in EnvTokenVals, v \in VaultFileVals :
          env = [VAULT_ADDR |-> a, VAULT_TOKEN |-> t, vaultFile |-> v]
    /\ cfg = EmptyConfig
    /\ last = NoCommand
    /\ loggedOut = FALSE
    /\ claim = IdleClaim
    /\ requests = [g \in GatePaths |-> "none"]

\* The variables of the login attempt and of the claim command.
otherVars == <<clientID, pc, cmdVars, loginVars, claim, requests>>

\* gateplane service login [--client-id flag]: RunE of serviceLoginCmd, with
\* the result of vault.NewClient and of performOIDCLogin drawn from their
\* outcomes.
ServiceLogin ==
    /\ \E flag \in FlagClientIDVals, vaultFailed \in BOOLEAN,
          r \in LoginOutcomes, saveFailed \in BOOLEAN :
           LET c0 == LoadConfig(file, env)
               cid == IF flag = <<>> THEN c0.service.clientID ELSE flag
               c1 == [c0 EXCEPT !.service.clientID = cid]
               c2 == [c1 EXCEPT !.service.jwt = r.token]
           IN  IF cid = <<>>
               THEN /\ cfg' = c0
                    /\ last' = Ran("login", flag, ErrClientIDRequired, <<>>)
                    /\ UNCHANGED <<file, loggedOut>>
               ELSE IF vaultFailed
               THEN /\ cfg' = c1
                    /\ last' = Ran("login", flag,
                                   wrapError("create vault client", ErrVaultAddr),
                                   <<>>)
                    /\ UNCHANGED <<file, loggedOut>>
               ELSE IF r.err # NoError
               THEN /\ cfg' = c1
                    /\ last' = Ran("login", flag, wrapError("OIDC login", r.err),
                                   <<>>)
                    /\ UNCHANGED <<file, loggedOut>>
               ELSE /\ cfg' = c2
                    /\ WriteConfig(saveFailed, c2)
                    /\ last' = Ran("login", flag,
                                   IF saveFailed
                                   THEN wrapError("save authentication data",
                                                  ErrWriteConfig)
                                   ELSE NoError,
                                   IF saveFailed THEN <<>> ELSE LoginSuccessLine)
                    /\ loggedOut' = (loggedOut /\ saveFailed)
    /\ UNCHANGED <<env, otherVars>>

\* config.ClearServiceAuth()
ClearServiceAuth(c) == [c EXCEPT !.service.jwt = "", !.service.jwks = ""]

\* gateplane service logout: RunE of serviceLogoutCmd.
ServiceLogout ==
    /\ \E saveFailed \in BOOLEAN :
           LET c == ClearServiceAuth(LoadConfig(file, env))
           IN  /\ cfg' = c
               /\ WriteConfig(saveFailed, c)
               /\ last' = Ran("logout", <<>>,
                              IF saveFailed
                              THEN wrapError("clear service auth", ErrWriteConfig)
                              ELSE NoError,
                              IF saveFailed THEN <<>> ELSE LoggedOutLine)
               /\ loggedOut' = (loggedOut \/ ~saveFailed)
    /\ UNCHANGED <<env, otherVars>>

\* gateplane service status: RunE of serviceStatusCmd, up to its first line
\* of output.
ServiceStatus ==
    /\ LET c == LoadConfig(file, env)
           r == createServiceClient(c)
       IN  /\ cfg' = c
           /\ last' = Ran("status", <<>>, NoError,
                          IF r.ok THEN ServiceAddressLine
                          ELSE NotAuthenticatedLine)
    /\ UNCHANGED <<file, loggedOut, env, otherVars>>

SvcNext ==
    \/ ServiceLogin
    \/ ServiceLogout
    \/ ServiceStatus

SvcSpec == SvcInit /\ [][SvcNext]_vars

\* C28: a logout that succeeded has left the JWT and the JWKS of the config
\* file empty and its client id and Vault settings as they were before the
\* command; from a successful logout until a login succeeds, creating the
\* service client in a new process fails with "service JWT not configured"
\* and the status command prints that the user is not authenticated.
C28_LogoutClearsAuth ==
    /\ (last.cmd = "logout" /\ last.err = NoError) =>
        /\ file.service.jwt = ""
        /\ file.service.jwks = ""
        /\ file.service.clientID = last.before.service.clientID
        /\ file.vault = last.before.vault
    /\ loggedOut =>
        /\ ~createServiceClient(LoadConfig(file, env)).ok
        /\ NewClient(LoadConfig(file, env)).err = ErrNoJWT
    /\ (loggedOut /\ last.cmd = "status") => last.out = NotAuthenticatedLine

\* The parts of C28 the code keeps: everything but the Vault settings.
C28_ServiceSectionCleared ==
    /\ (last.cmd = "logout" /\ last.err = NoError) =>
        /\ file.service.jwt = ""
        /\ file.service.jwks = ""
        /\ file.service.clientID = last.before.service.clientID
    /\ loggedOut =>
        /\ ~createServiceClient(LoadConfig(file, env)).ok
        /\ NewClient(LoadConfig(file, env)).err = ErrNoJWT
    /\ (loggedOut /\ last.cmd = "status") => last.out = NotAuthenticatedLine

\* ===================================================== the claim command
\* gateplane claim [gate]: RunE of claimCmd, one step per call it makes.

\* Status of the caller's request on a gate: "none" is no active request.
RequestStatuses == {"none", "pending", "approved"}

ErrVaultRead == <<"vault: connection refused">>
ErrNoGate == <<"gate is required">>
ErrSelect == <<"selection cancelled">>
ErrNotify == <<"notification failed">>
NoClaimableLine == <<"No Claimable Requests available.">>

\* fmt.Errorf("request is not approved (status: %s)", req.Status)
ErrNotApproved(status) == <<"request is not approved (status: ", status, ")">>

\* client.GetRequestStatus(gate) when the read succeeds: no request and no
\* error when Vault has no data for the path, else the request.
GetRequestStatus(gate) ==
    IF requests[gate] = "none"
    THEN NilRequest
    ELSE [exists |-> TRUE, status |-> requests[gate]]

\* The command is entered: config.Init has loaded cfg, Vault holds the
\* caller's requests.
ClaimInit ==
    /\ LoginIdle
    /\ \E j \in StoredJWTVals :
          /\ file = [EmptyConfig EXCEPT !.service.jwt = j]
          /\ cfg = file
    /\ env = NoEnv
    /\ last = NoCommand
    /\ loggedOut = FALSE
    /\ requests \in [GatePaths -> RequestStatuses]
    /\ \E i \in BOOLEAN :
          claim = [IdleClaim EXCEPT !.pc = "start", !.interactive = i]

claimFrame ==
    <<clientID, pc, cmdVars, loginVars, cfg, file, env, last, loggedOut>>

\* return err: the command ends with an error.
ClaimFail(err) ==
    claim' = [claim EXCEPT !.pc = "done", !.result = "error", !.err = err]

\* client, err := createVaultClient()
ClaimVaultClient ==
    /\ claim.pc = "start"
    /\ \E failed \in BOOLEAN :
        IF failed
        THEN ClaimFail(wrapError("create vault client", ErrVaultAddr))
        ELSE claim' = [claim EXCEPT !.pc = "service"]
    /\ UNCHANGED <<requests, claimFrame>>

\* svcClient, err := createServiceClient(); on an error the line is printed
\* and svcClient is nil.
ClaimServiceClient ==
    /\ claim.pc = "service"
    /\ LET r == createServiceClient(cfg)
       IN  claim' = [claim EXCEPT
                        !.svcClient = r.ok,
                        !.out = IF r.ok THEN @ ELSE @ \cup {NotAuthenticatedLine},
                        !.pc = IF claim.interactive THEN "discover"
                               ELSE "resolve"]
    /\ UNCHANGED <<requests, claimFrame>>

\* gates, err := client.DiscoverGates()
ClaimDiscover ==
    /\ claim.pc = "discover"
    /\ \E failed \in BOOLEAN :
        IF failed
        THEN ClaimFail(wrapError("discover gates", ErrVaultRead))
        ELSE claim' = [claim EXCEPT !.pc = "scan", !.todo = GatePaths]
    /\ UNCHANGED <<requests, claimFrame>>

\* One round of the loop over the discovered gates: the gate is claimable
\* when its status is read without error, is not nil and is Approved.
ClaimScan ==
    /\ claim.pc = "scan"
    /\ claim.todo # {}
    /\ \E g \in claim.todo, failed \in BOOLEAN :
        LET r == GetRequestStatus(g)
            ok == ~failed /\ r.exists /\ r.status = "approved"
        IN  claim' = [claim EXCEPT
                         !.todo = @ \ {g},
                         !.claimable = IF ok THEN @ \cup {g} ELSE @]
    /\ UNCHANGED <<requests, claimFrame>>

\* After the loop: without a claimable gate the command prints a line and
\* returns nil; else gate, err = selectGateInteractively(client,
\* claimableGates).
ClaimSelect ==
    /\ claim.pc = "scan"
    /\ claim.todo = {}
    /\ IF claim.claimable = {}
       THEN claim' = [claim EXCEPT !.pc = "done", !.result = "nil",
                                   !.out = @ \cup {NoClaimableLine}]
       ELSE \/ ClaimFail(ErrSelect)
            \/ \E g \in claim.claimable :
                  claim' = [claim EXCEPT !.pc = "status", !.gate = g]
    /\ UNCHANGED <<requests, claimFrame>>

\* gate, err = resolveGateFromArgs(args)
ClaimResolve ==
    /\ claim.pc = "resolve"
    /\ \/ ClaimFail(ErrNoGate)
       \/ \E g \in GatePaths :
             claim' = [claim EXCEPT !.pc = "status", !.gate = g]
    /\ UNCHANGED <<requests, claimFrame>>

\* req, err := client.GetRequestStatus(gate)
\* if err != nil { return wrapError("get request status", err) }
ClaimGetStatus ==
    /\ claim.pc = "status"
    /\ \E failed \in BOOLEAN :
        IF failed
        THEN claim' = [claim EXCEPT
                          !.pc = "done", !.result = "error", !.fetched = TRUE,
                          !.err = wrapError("get request status", ErrVaultRead)]
        ELSE claim' = [claim EXCEPT !.pc = "check", !.fetched = TRUE,
                                    !.req = GetRequestStatus(claim.gate)]
    /\ UNCHANGED <<requests, claimFrame>>

\* if req.Status != base.Approved { return wrapError("claim access", ...) }
\* req.Status on the nil request is a nil pointer dereference: the goroutine
\* panics and the process dies without RunE returning.
ClaimCheck ==
    /\ claim.pc = "check"
    /\ IF ~claim.req.exists
       THEN claim' = [claim EXCEPT !.pc = "done", !.result = "panic"]
       ELSE IF claim.req.status # "approved"
       THEN ClaimFail(wrapError("claim access",
                                ErrNotApproved(claim.req.status)))
       ELSE claim' = [claim EXCEPT !.pc = "claim"]
    /\ UNCHANGED <<requests, claimFrame>>

\* claimResponse, err := client.ClaimAccess(gate)
ClaimAccess ==
    /\ claim.pc = "claim"
    /\ \E failed \in BOOLEAN :
        LET called == Append(claim.claims,
                             [gate |-> claim.gate, req |-> claim.req])
        IN  IF failed
            THEN claim' = [claim EXCEPT
                              !.pc = "done", !.result = "error",
                              !.claims = called,
                              !.err = wrapError("claim access", ErrVaultRead)]
            ELSE claim' = [claim EXCEPT !.pc = "notify", !.claims = called]
    /\ UNCHANGED <<requests, claimFrame>>

\* sendNotificationWithRetry(svcClient, client, req, gate, service.Claim),
\* then the output and return nil.
ClaimNotify ==
    /\ claim.pc = "notify"
    /\ \/ /\ claim.svcClient
          /\ ClaimFail(wrapError("send notification", ErrNotify))
       \/ claim' = [claim EXCEPT !.pc = "done", !.result = "nil"]
    /\ UNCHANGED <<requests, claimFrame>>

\* Vault, while the command runs: the request on a gate is created,
\* approved, or ends.
RequestChanges ==
    /\ claim.pc # "done"
    /\ \E g \in GatePaths, s \in RequestStatuses :
          /\ s # requests[g]
          /\ requests' = [requests EXCEPT ![g] = s]
    /\ UNCHANGED <<claim, claimFrame>>

ClaimNext ==
    \/ ClaimVaultClient
    \/ ClaimServiceClient
    \/ ClaimDiscover
    \/ ClaimScan
    \/ ClaimSelect
    \/ ClaimResolve
    \/ ClaimGetStatus
    \/ ClaimCheck
    \/ ClaimAccess
    \/ ClaimNotify
    \/ RequestChanges

ClaimSpec == ClaimInit /\ [][ClaimNext]_vars

\* The status read for the chosen gate showed an Approved request.
FetchedApproved ==
    claim.fetched /\ claim.req.exists /\ claim.req.status = "approved"

\* C29: ClaimAccess is called only on a gate whose request, as read by
\* GetRequestStatus, exists and is Approved; when the status was asked for
\* and anything else came back (an error, another status, no request), the
\* command ends by returning an error, without a claim.
C29_ClaimOnlyApproved ==
    /\ \A i \in 1..Len(claim.claims) :
          /\ claim.claims[i].req.exists
          /\ claim.claims[i].req.status = "approved"
    /\ (claim.pc = "done" /\ claim.fetched /\ ~FetchedApproved) =>
          /\ claim.result = "error"
          /\ claim.err # NoError
          /\ claim.claims = <<>>

\* The part of C29 the code keeps: no claim without an Approved request, and
\* an error for a failed read and for a request of another status.
C29_NoClaimUnlessApproved ==
    /\ \A i \in 1..Len(claim.claims) :
          /\ claim.claims[i].req.exists
          /\ claim.claims[i].req.status = "approved"
    /\ (claim.pc = "done" /\ claim.fetched /\ ~FetchedApproved) =>
          /\ claim.claims = <<>>
          /\ claim.result = "error" \/ (claim.result = "panic" /\ ~claim.req.exists)

\* ========================================================= gate aliases
\* config.AddGateAlias and config.ResolveGatePath on cfg.Gates.  Paths,
\* aliases and gate references are sequences of characters.

AliasPathVals == {<<"g", "1">>, <<"g", "2">>}
AliasVals == {<<"a">>, <<"b">>}
GateTypeVals == {"policy-gate"}

\* References a caller may resolve: "@" + alias, an alias, a path.
GateRefVals ==
    {<<"@">> \o a : a \in AliasVals} \cup AliasVals \cup AliasPathVals

ErrAliasNotFound(alias) == <<"gate with alias ">> \o alias \o <<" not found">>

\* for i, gate := range cfg.Gates { if <test> { return ... } }: the index of
\* the first gate whose test (hit[i]) is true, 0 when the loop falls through.
FirstGate(hit) ==
    IF \E i \in DOMAIN hit : hit[i]
    THEN CHOOSE i \in DOMAIN hit :
            /\ hit[i]
            /\ \A j \in 1..(i - 1) : ~hit[j]
    ELSE 0

\* config.AddGateAlias(path, alias, gateType), up to its SaveConfig: the
\* alias of the first gate with the path is replaced, or a gate is appended.
AddGateAlias(c, path, alias, gateType) ==
    LET i == FirstGate([k \in 1..Len(c.gates) |-> c.gates[k].path = path])
    IN  IF i # 0
        THEN [c EXCEPT !.gates[i].alias = alias]
        ELSE [c EXCEPT !.gates = Append(@, [path |-> path, alias |-> alias,
                                            type |-> gateType])]

\* config.GetGateByAlias(alias)
GetGateByAlias(c, alias) ==
    LET i == FirstGate([k \in 1..Len(c.gates) |-> c.gates[k].alias = alias])
    IN  IF i # 0
        THEN [found |-> TRUE, path |-> c.gates[i].path, err |-> NoError]
        ELSE [found |-> FALSE, path |-> <<>>, err |-> ErrAliasNotFound(alias)]

\* config.ResolveGatePath(gateRef)
ResolveGatePath(c, gateRef) ==
    LET byAlias == GetGateByAlias(c, Tail(gateRef))
        i == FirstGate([k \in 1..Len(c.gates) |->
                           c.gates[k].path = gateRef
                           \/ c.gates[k].alias = gateRef])
    IN  IF Len(gateRef) > 0 /\ Head(gateRef) = "@" /\ byAlias.found
        THEN byAlias.path
        ELSE IF i # 0 THEN c.gates[i].path
        ELSE gateRef

\* A config file without gates has been loaded.
AliasInit ==
    /\ LoginIdle
    /\ file = EmptyConfig
    /\ cfg = EmptyConfig
    /\ env = NoEnv
    /\ last = NoCommand
    /\ loggedOut = FALSE
    /\ claim = IdleClaim
    /\ requests = [g \in GatePaths |-> "none"]

\* A call of AddGateAlias; it succeeds when SaveConfig does.
AliasAdd ==
    /\ \E path \in AliasPathVals, alias \in AliasVals, t \in GateTypeVals,
          saveFailed \in BOOLEAN :
           LET c == AddGateAlias(cfg, path, alias, t)
           IN  /\ cfg' = c
               /\ WriteConfig(saveFailed, c)
               /\ last' = Ran("alias", <<path, alias>>,
                              IF saveFailed THEN ErrWriteConfig ELSE NoError,
                              <<>>)
    /\ UNCHANGED <<loggedOut, env, otherVars>>

\* A call of ResolveGatePath.
AliasResolve ==
    /\ \E ref \in GateRefVals :
           last' = Ran("resolve", <<ref>>, NoError, ResolveGatePath(cfg, ref))
    /\ UNCHANGED <<cfg, file, loggedOut, env, otherVars>>

\* The next command starts: config.Init loads the file.
AliasReload ==
    /\ cfg' = LoadConfig(file, env)
    /\ UNCHANGED <<file, last, loggedOut, env, otherVars>>

AliasNext ==
    \/ AliasAdd
    \/ AliasResolve
    \/ AliasReload

AliasSpec == AliasInit /\ [][AliasNext]_vars

\* The last call was an AddGateAlias that returned nil.
AliasAdded == last.cmd = "alias" /\ last.err = NoError

\* No two entries of the gate list have the same path.
OnePerPath(gs) ==
    \A i, j \in 1..Len(gs) : gs[i].path = gs[j].path => i = j

\* C30: after AddGateAlias(path, alias) has succeeded, ResolveGatePath("@" +
\* alias) is path, and the gate list has at most one entry for each path.
C30_AliasRoundTrip ==
    /\ AliasAdded =>
          ResolveGatePath(cfg, <<"@">> \o last.arg[2]) = last.arg[1]
    /\ OnePerPath(cfg.gates)
    /\ OnePerPath(file.gates)

\* The part of C30 the code keeps: one entry for each path, and the round
\* trip when no gate listed before path has the alias.
C30_RoundTripWhenAliasFree ==
    /\ AliasAdded =>
          LET path == last.arg[1]
              alias == last.arg[2]
              pos == CHOOSE i \in 1..Len(cfg.gates) : cfg.gates[i].path = path
          IN  /\ \E i \in 1..Len(cfg.gates) : cfg.gates[i].path = path
              /\ cfg.gates[pos].alias = alias
              /\ (\A j \in 1..(pos - 1) : cfg.gates[j].alias # alias) =>
                    ResolveGatePath(cfg, <<"@">> \o alias) = path
    /\ OnePerPath(cfg.gates)
    /\ OnePerPath(file.gates)

====
